---------------------------- MODULE Spec2Model ----------------------------
(***************************************************************************)
(* Model of the HP-3000 / WS-3000 weewx driver, bin/user/hp3000.py:        *)
(* the frame extraction of HP3000Station.read, the message decoding of     *)
(* HP3000Station.raw_to_pkt, and the recv / decode step that               *)
(* HP3000Driver.genLoopPackets and the station test loop run on every      *)
(* packet the USB transport delivers.                                      *)
(*                                                                         *)
(* Conventions.  A buffer is a sequence of bytes (0..255).  The source     *)
(* indexes from 0 and TLA+ from 1: At(buf, i) is Python's buf[i].  Python  *)
(* None is the record NoneBuf for a buffer and the string "None" for a     *)
(* table lookup that misses.  A float n / 10.0 is the record Tenths(n):    *)
(* for the integers 0..65535 that division is injective, so the numerator  *)
(* determines the value.  A Python dict is a function from its keys.       *)
(***************************************************************************)
EXTENDS Integers, Sequences, FiniteSets, TLC

VARIABLES
    pc,     \* position of the caller's loop: idle, read, recvd, decoded, crashed
    raw,    \* the buffer weeusb's _read hands to HP3000Station.read
    res,    \* what read did: returned None, returned a message, or raised
    buf,    \* the argument of raw_to_pkt
    out,    \* what raw_to_pkt did: the dict it returned, its log lines
    \* HP3000Driver.genLoopPackets
    lpc,        \* position in genLoopPackets
    sensor_map, \* self._sensor_map
    cnt,        \* the local cnt
    last_send,  \* the local last_send
    now,        \* the local now, the last reading of the clock
    wire,       \* the buffers written in this iteration, in order
    yielded,    \* the packet handed to the consumer, at a yield
    fails,      \* iterations that failed with WeeWxIOError in a row
    done_at,    \* the now of the iteration whose send_sequence last completed, -1: none
    iter_sent,  \* this iteration's send_sequence: "no", "done" or "failed"
    prev_failed \* the send_sequence of the iteration before was interrupted

lvars == <<lpc, sensor_map, cnt, last_send, now, wire, yielded, fails, done_at,
           iter_sent, prev_failed>>

vars == <<pc, raw, res, buf, out, lvars>>

---------------------------------------------------------------------------
(* Program constants *)

USB_PACKET_SIZE == 64
START_BYTE == 123
TERM_1 == 64
TERM_2 == 125
TEMP_ABSENT_MSB == 127
ABSENT_BYTE == 255

(* Bounds of the model *)

\* packets of a wrong length: 1..MaxSlack and USB_PACKET_SIZE +/- 1..MaxSlack
MaxSlack == 2

\* self._max_tries (max_tries of the station's configuration)
MaxTries == 3

\* self._ping_interval (ping_interval of the station's configuration), in
\* seconds
PingInterval == 2

\* the clock is followed for Horizon seconds after the driver starts
Horizon == 6

---------------------------------------------------------------------------
(* Python values *)

NoneBuf == [isNone |-> TRUE, bytes |-> <<>>]
Bytes(b) == [isNone |-> FALSE, bytes |-> b]

\* buf[i]
At(b, i) == b[i + 1]

\* buf[a:b] for 0 <= a
PySlice(b, lo, hi) ==
    LET h == IF hi < 0 THEN Len(b) + hi ELSE IF hi > Len(b) THEN Len(b) ELSE hi
    IN  IF h <= lo THEN <<>> ELSE SubSeq(b, lo + 1, h)

\* [v] * n
Repeat(v, n) == [i \in 1..n |-> v]

\* the float n / 10.0
Tenths(n) == [num |-> n, den |-> 10]

\* a dict from its (key, value) assignments; keys are assigned once
Dict(entries) ==
    [k \in {e[1] : e \in entries} |-> (CHOOSE e \in entries : e[1] = k)[2]]

EmptyDict == Dict({})

\* 'prefix_%s' % n
Key(prefix, n) == prefix \o "_" \o ToString(n)

\* d.get(k) of one of the lookup tables
TableGet(table, k) == IF k \in DOMAIN table THEN table[k] ELSE "None"

---------------------------------------------------------------------------
(* HP3000Station.read *)

\* what a call can do
ReturnedNone == [kind |-> "none", msg |-> <<>>, exc |-> "", what |-> ""]
Returned(m) == [kind |-> "msg", msg |-> m, exc |-> "", what |-> ""]
Raised(e, w) == [kind |-> "exc", msg |-> <<>>, exc |-> e, what |-> w]
NotCalled == [kind |-> "unset", msg |-> <<>>, exc |-> "", what |-> ""]

\* the indices at which b holds v
IndicesOf(b, v) == {i \in 0..(Len(b) - 1) : At(b, i) = v}

Min(S) == CHOOSE x \in S : \A y \in S : x <= y
Max(S) == CHOOSE x \in S : \A y \in S : x >= y

\* the try block: i = buf.index(0x40); if buf[i + 1] == 0x7d: idx = i.
\* index raises ValueError when 0x40 is missing; buf[i + 1] raises IndexError
\* when the first 0x40 is the last byte.  "except ValueError, IndexError:" is
\* Python 2's "except ValueError as IndexError": it catches ValueError alone.
\* The result is [exc, idx], idx = -1 standing for None.
FindIdx_Last(b) ==
    IF IndicesOf(b, TERM_1) = {}
    THEN [exc |-> "", idx |-> -1]
    ELSE LET i == Max(IndicesOf(b, TERM_1))
         IN  IF i + 1 >= Len(b)
             THEN [exc |-> "IndexError", idx |-> -1]
             ELSE IF At(b, i + 1) = TERM_2
                  THEN [exc |-> "", idx |-> i]
                  ELSE [exc |-> "", idx |-> -1]

FindIdx(b) ==
    IF IndicesOf(b, TERM_1) = {}
    THEN [exc |-> "", idx |-> -1]
    ELSE LET i == Min(IndicesOf(b, TERM_1))
         IN  IF i + 1 >= Len(b)
             THEN [exc |-> "IndexError", idx |-> -1]
             ELSE IF At(b, i + 1) = TERM_2
                  THEN [exc |-> "", idx |-> i]
                  ELSE [exc |-> "", idx |-> -1]

\* return buf[0: idx + 2]
Frame_Short(b, idx) == PySlice(b, 0, idx + 1)

Frame(b, idx) == PySlice(b, 0, idx + 2)

Read_StartFirst(b) ==
    IF b.isNone \/ Len(b.bytes) = 0 THEN ReturnedNone
    ELSE IF At(b.bytes, 0) # START_BYTE
    THEN Raised("WeeWxIOError", "read: bad first byte")
    ELSE IF Len(b.bytes) # 64
    THEN Raised("WeeWxIOError", "read: bad buffer length")
    ELSE LET f == FindIdx(b.bytes)
         IN  IF f.exc # "" THEN Raised(f.exc, "")
             ELSE IF f.idx = -1
             THEN Raised("WeeWxIOError", "read: no terminating bytes in buffer")
             ELSE Returned(Frame(b.bytes, f.idx))

\* b is what _read returned: None or a list of bytes
Read(b) ==
    IF b.isNone \/ Len(b.bytes) = 0 THEN ReturnedNone
    ELSE IF Len(b.bytes) # 64
    THEN Raised("WeeWxIOError", "read: bad buffer length")
    ELSE IF At(b.bytes, 0) # START_BYTE
    THEN Raised("WeeWxIOError", "read: bad first byte")
    ELSE LET f == FindIdx(b.bytes)
         IN  IF f.exc # "" THEN Raised(f.exc, "")
             ELSE IF f.idx = -1
             THEN Raised("WeeWxIOError", "read: no terminating bytes in buffer")
             ELSE Returned(Frame(b.bytes, f.idx))

---------------------------------------------------------------------------
(* HP3000Station.raw_to_pkt *)

GRAPH_TYPE == (0 :> "temperature") @@ (1 :> "humidity") @@ (2 :> "dewpoint")
              @@ (3 :> "heatindex")
TIME_FORMAT == (0 :> "h:mm:ss") @@ (1 :> "AM h:mm:ss") @@ (2 :> "h:mm:ss AM")
DATE_FORMAT == (0 :> "dd-mm-yyyy") @@ (1 :> "mm-dd-yyyy") @@ (2 :> "yyyy-mm-dd")
DST == (0 :> "off") @@ (1 :> "on")
UNITS == (0 :> "degree_C") @@ (1 :> "degree_F")

\* (x & 0xf0) == 0xf0, for x >= 0
HighNibbleSet(x) == (x \div 16) % 16 = 15

decode_timezone_Signed8(x) == IF x >= 128 THEN x - 256 ELSE x

decode_timezone(x) == IF HighNibbleSet(x) THEN x - 256 ELSE x

\* for ch in range(8)
Channels == 0..7

\* the if / elif chain on len(buf), after "if not buf: return pkt"
Branch_Le4(b) ==
    IF b.isNone \/ Len(b.bytes) = 0 THEN "empty"
    ELSE IF Len(b.bytes) <= 4 THEN "interval"
    ELSE IF Len(b.bytes) = 30 THEN "configuration"
    ELSE IF Len(b.bytes) = 19 THEN "alarm_humidity"
    ELSE IF Len(b.bytes) = 35 THEN "alarm_temperature"
    ELSE IF Len(b.bytes) = 27 THEN "sensor"
    ELSE "unknown"

Branch_Nine(b) ==
    IF b.isNone \/ Len(b.bytes) = 0 THEN "empty"
    ELSE IF Len(b.bytes) = 4 \/ Len(b.bytes) = 9 THEN "interval"
    ELSE IF Len(b.bytes) = 30 THEN "configuration"
    ELSE IF Len(b.bytes) = 19 THEN "alarm_humidity"
    ELSE IF Len(b.bytes) = 35 THEN "alarm_temperature"
    ELSE IF Len(b.bytes) = 27 THEN "sensor"
    ELSE "unknown"

Branch(b) ==
    IF b.isNone \/ Len(b.bytes) = 0 THEN "empty"
    ELSE IF Len(b.bytes) = 4 THEN "interval"
    ELSE IF Len(b.bytes) = 30 THEN "configuration"
    ELSE IF Len(b.bytes) = 19 THEN "alarm_humidity"
    ELSE IF Len(b.bytes) = 35 THEN "alarm_temperature"
    ELSE IF Len(b.bytes) = 27 THEN "sensor"
    ELSE "unknown"

\* idx of channel ch in each per-channel layout
HumAlarmIdx(ch) == 1 + ch * 2
TempAlarmIdx(ch) == 1 + ch * 4

SensorIdx_Four(ch) == 1 + ch * 4

SensorIdx(ch) == 1 + ch * 3

\* buf[1: -2] == [0] * 24
IsCalibration_First(b) == At(b, 1) = 0

IsCalibration(b) == PySlice(b, 1, -2) = Repeat(0, 24)

\* (buf[i] * 256 + buf[i + 1]) / 10.0
Temp16_Signed(b, i) ==
    LET n == At(b, i) * 256 + At(b, i + 1)
    IN  Tenths(IF n >= 32768 THEN n - 65536 ELSE n)

Temp16(b, i) == Tenths(At(b, i) * 256 + At(b, i + 1))

\* the indices of buf each branch subscripts
IndicesRead(b) ==
    LET br == Branch(Bytes(b))
    IN  CASE br = "interval" -> {1}
          [] br = "configuration" -> {1, 2, 3, 4, 5, 6, 7, 11, 15, 19, 23, 27}
          [] br = "alarm_humidity" ->
                UNION {{HumAlarmIdx(ch), HumAlarmIdx(ch) + 1} : ch \in Channels}
          [] br = "alarm_temperature" ->
                UNION {{TempAlarmIdx(ch) + d : d \in 0..3} : ch \in Channels}
          [] br = "sensor" ->
                UNION {{SensorIdx(ch) + d : d \in 0..2} : ch \in Channels}
          [] OTHER -> {}

\* if buf[idx] != 0x7f and buf[idx + 1] != 0xff
TempPresent(b, idx) == At(b, idx) # TEMP_ABSENT_MSB /\ At(b, idx + 1) # ABSENT_BYTE

\* if buf[idx + 2] != 0xff
HumPresent_WithTemp(b, idx) == TempPresent(b, idx) /\ At(b, idx + 2) # ABSENT_BYTE

HumPresent(b, idx) == At(b, idx + 2) # ABSENT_BYTE

ConfigurationPkt_Shifted(b) ==
    Dict({ <<"type", "configuration">>,
           <<"graph_type", TableGet(GRAPH_TYPE, At(b, 1))>>,
           <<"graph_hours", At(b, 2)>>,
           <<"time_format", TableGet(TIME_FORMAT, At(b, 3))>>,
           <<"date_format", TableGet(DATE_FORMAT, At(b, 4))>>,
           <<"dst", TableGet(DST, At(b, 5))>>,
           <<"timezone", decode_timezone(At(b, 6))>>,
           <<"units", TableGet(UNITS, At(b, 7))>>,
           <<"area1", At(b, 11)>>,
           <<"area2", At(b, 14)>>,
           <<"area3", At(b, 19)>>,
           <<"area4", At(b, 23)>>,
           <<"area5", At(b, 27)>> })

ConfigurationPkt(b) ==
    Dict({ <<"type", "configuration">>,
           <<"graph_type", TableGet(GRAPH_TYPE, At(b, 1))>>,
           <<"graph_hours", At(b, 2)>>,
           <<"time_format", TableGet(TIME_FORMAT, At(b, 3))>>,
           <<"date_format", TableGet(DATE_FORMAT, At(b, 4))>>,
           <<"dst", TableGet(DST, At(b, 5))>>,
           <<"timezone", decode_timezone(At(b, 6))>>,
           <<"units", TableGet(UNITS, At(b, 7))>>,
           <<"area1", At(b, 11)>>,
           <<"area2", At(b, 15)>>,
           <<"area3", At(b, 19)>>,
           <<"area4", At(b, 23)>>,
           <<"area5", At(b, 27)>> })

HumidityAlarmPkt(b) ==
    Dict({<<"type", "alarm_humidity">>}
         \cup {<<Key("hhi", ch + 1), At(b, HumAlarmIdx(ch))>> : ch \in Channels}
         \cup {<<Key("hlo", ch + 1), At(b, HumAlarmIdx(ch) + 1)>> : ch \in Channels})

TemperatureAlarmPkt(b) ==
    Dict({<<"type", "alarm_temperature">>}
         \cup {<<Key("thi", ch + 1), Temp16(b, TempAlarmIdx(ch))>> : ch \in Channels}
         \cup {<<Key("tlo", ch + 1), Temp16(b, TempAlarmIdx(ch) + 2)>> : ch \in Channels})

CalibrationPkt(b) ==
    Dict({<<"type", "sensor_calibration">>}
         \cup {<<Key("tc", ch + 1), Temp16(b, SensorIdx(ch))>> : ch \in Channels}
         \cup {<<Key("hc", ch + 1), At(b, SensorIdx(ch) + 2)>> : ch \in Channels})

SensorValuesPkt(b) ==
    Dict({<<"type", "sensor_values">>}
         \cup {<<Key("t", ch + 1), Temp16(b, SensorIdx(ch))>> :
                 ch \in {c \in Channels : TempPresent(b, SensorIdx(c))}}
         \cup {<<Key("h", ch + 1), At(b, SensorIdx(ch) + 2)>> :
                 ch \in {c \in Channels : HumPresent(b, SensorIdx(c))}})

\* what raw_to_pkt did: the exception it raised ("" for none), the dict it
\* returned, and the tags of its logdbg lines
Decoded(p, l) == [exc |-> "", pkt |-> p, log |-> l]
DecodeRaised(e) == [exc |-> e, pkt |-> EmptyDict, log |-> <<"raw">>]
NotDecoded == [exc |-> "", pkt |-> EmptyDict, log |-> <<>>]

raw_to_pkt(b) ==
    LET br == Branch(b)
        s == b.bytes
    IN  IF br = "empty" THEN Decoded(EmptyDict, <<"raw">>)
        ELSE IF ~(IndicesRead(s) \subseteq 0..(Len(s) - 1))
        THEN DecodeRaised("IndexError")
        ELSE CASE br = "interval" ->
                    Decoded(Dict({<<"type", "interval">>, <<"interval", At(s, 1)>>}),
                            <<"raw">>)
               [] br = "configuration" -> Decoded(ConfigurationPkt(s), <<"raw">>)
               [] br = "alarm_humidity" -> Decoded(HumidityAlarmPkt(s), <<"raw">>)
               [] br = "alarm_temperature" ->
                    Decoded(TemperatureAlarmPkt(s), <<"raw">>)
               [] br = "sensor" ->
                    IF IsCalibration(s)
                    THEN Decoded(CalibrationPkt(s), <<"raw">>)
                    ELSE Decoded(SensorValuesPkt(s), <<"raw">>)
               [] OTHER -> Decoded(EmptyDict, <<"raw", "unknown data">>)

---------------------------------------------------------------------------
(* The buffers the USB transport can deliver.  The console reuses one       *)
(* 64-byte buffer: a message is followed by what an earlier, longer message *)
(* left behind.                                                             *)

FillBytes == {0, 1}
PokeBytes == {0, 64, 125}
ResidueKinds == {"zero", "ff", "stale"}

\* byte i of the residue: zeros, 0xff, or the tail of an earlier 35-byte
\* temperature alarm message (30.0 / 10.0 C pairs, then 40 7d)
Residue(r, i) ==
    CASE r = "zero" -> 0
      [] r = "ff" -> 255
      [] OTHER -> IF i = 33 THEN 64
                  ELSE IF i = 34 THEN 125
                  ELSE IF i > 34 THEN 0
                  ELSE IF i % 4 = 1 THEN 1
                  ELSE IF i % 4 = 2 THEN 44
                  ELSE IF i % 4 = 3 THEN 0
                  ELSE 100

\* a 64-byte buffer: 7b, the payload, 40 7d at index t, then residue;
\* t = 63 leaves the buffer without a terminator
Terminators == 1..63

Layout(payload, t, r) ==
    [j \in 1..USB_PACKET_SIZE |->
        LET i == j - 1
        IN  IF i = 0 THEN START_BYTE
            ELSE IF t = 63 \/ i < t THEN payload[i]
            ELSE IF i = t THEN TERM_1
            ELSE IF i = t + 1 THEN TERM_2
            ELSE Residue(r, i)]

Poke(b, q, v) == [b EXCEPT ![q + 1] = v]

\* framing cases: a uniform payload, any terminator position, any residue,
\* and at most one byte anywhere replaced by 00, 40 or 7d
Plain(f, t, r) == Layout([i \in 1..USB_PACKET_SIZE |-> f], t, r)

FramingPackets ==
    {Plain(f, t, r) : f \in FillBytes, t \in Terminators, r \in ResidueKinds}
    \cup {Poke(Plain(f, t, r), q, v) :
            f \in FillBytes, t \in Terminators, r \in ResidueKinds,
            q \in 0..(USB_PACKET_SIZE - 1), v \in PokeBytes}

\* 27-byte messages: every channel holds the triple bg, but channel k holds tr
MsbBytes == {0, 1, 127}
LsbBytes == {0, 235, 255}
HumBytes == {0, 37, 64, 255}
Triples == {<<m, l, h>> : m \in MsbBytes, l \in LsbBytes, h \in HumBytes}
BgTriples == {<<0, 0, 0>>, <<127, 255, 255>>, <<0, 235, 37>>}

SensorPayload(bg, k, tr) ==
    [i \in 1..USB_PACKET_SIZE |->
        IF (i - 1) \div 3 = k THEN tr[((i - 1) % 3) + 1] ELSE bg[((i - 1) % 3) + 1]]

SensorPackets ==
    {Layout(SensorPayload(bg, k, tr), 25, r) :
        bg \in BgTriples, k \in Channels, tr \in Triples, r \in ResidueKinds}

\* 27-byte messages with a temperature whose high bit is set
HighTriples == {<<255, 56, 37>>, <<128, 0, 37>>, <<255, 254, 0>>}

HighSensorPackets ==
    {Layout(SensorPayload(bg, k, tr), 25, "zero") :
        bg \in BgTriples, k \in Channels, tr \in HighTriples}

\* 30-byte configuration messages: the documented example, with one byte of
\* the payload replaced, or with any timezone byte
ConfigExample ==
    <<0, 72, 1, 0, 0, 251, 1, 0, 0, 0, 7, 0, 0, 0, 0, 0, 0, 0, 0, 0, 0, 0, 0,
      0, 0, 0, 0>>

ConfigPayload(q, v) ==
    [i \in 1..USB_PACKET_SIZE |->
        IF i = q THEN v ELSE IF i <= Len(ConfigExample) THEN ConfigExample[i] ELSE 0]

ConfigFieldBytes == {0, 1, 2, 3, 4, 9, 31}

ConfigPayloads ==
    {ConfigPayload(q, v) : q \in 1..27, v \in ConfigFieldBytes}
    \cup {ConfigPayload(6, tz) : tz \in 0..255}

ConfigPackets ==
    {Layout(p, 28, r) : p \in ConfigPayloads, r \in {"zero", "stale"}}

\* 35-byte temperature alarm messages: every channel holds 30.0 / 10.0, but
\* channel k holds the pairs hi and lo
AlarmMsbBytes == {0, 1, 128, 255}
AlarmLsbBytes == {0, 44, 56, 255}
AlarmPairs == {<<m, l>> : m \in AlarmMsbBytes, l \in AlarmLsbBytes}

TempAlarmPayload(k, hi, lo) ==
    [i \in 1..USB_PACKET_SIZE |->
        LET d == (i - 1) % 4
            own == (i - 1) \div 4 = k
        IN  CASE d = 0 -> IF own THEN hi[1] ELSE 1
              [] d = 1 -> IF own THEN hi[2] ELSE 44
              [] d = 2 -> IF own THEN lo[1] ELSE 0
              [] OTHER -> IF own THEN lo[2] ELSE 100]

TempAlarmPackets ==
    {Layout(TempAlarmPayload(k, hi, lo), 33, r) :
        k \in Channels, hi \in AlarmPairs, lo \in {<<0, 100>>, <<255, 56>>},
        r \in {"zero", "ff"}}

\* buffers of a wrong length: a packet cut short or run long
WrongLengths ==
    (1..MaxSlack) \cup {USB_PACKET_SIZE - d : d \in 1..MaxSlack}
    \cup {USB_PACKET_SIZE + d : d \in 1..MaxSlack}

Resize(b, n) == [i \in 1..n |-> IF i <= Len(b) THEN b[i] ELSE 0]

WrongLengthPackets ==
    {Resize(Poke(Plain(f, t, r), 0, s), n) :
        f \in FillBytes, t \in {2, 25, 63}, r \in ResidueKinds,
        s \in {START_BYTE, 0}, n \in WrongLengths}

\* everything _read can return
Delivered ==
    {NoneBuf, Bytes(<<>>)}
    \cup {Bytes(b) : b \in FramingPackets \cup SensorPackets \cup WrongLengthPackets}
    \cup {Bytes(b) : b \in HighSensorPackets \cup ConfigPackets \cup TempAlarmPackets}

\* arguments of a direct call of the static method raw_to_pkt: None and
\* byte sequences of every length from 0 up
DirectLengths == 0..(USB_PACKET_SIZE + MaxSlack)

DirectBuffers ==
    {NoneBuf}
    \cup {Bytes(Repeat(f, n)) : f \in FillBytes \cup {37}, n \in DirectLengths}
    \cup {Bytes(SubSeq(Layout(p, 28, "zero"), 1, 30)) : p \in ConfigPayloads}

---------------------------------------------------------------------------
(* HP3000Driver *)

DEFAULT_MAP ==
    [inTemp |-> "t_1", inHumidity |-> "h_1", outTemp |-> "t_2",
     outHumidity |-> "h_2", extraTemp1 |-> "t_3", extraHumid1 |-> "h_3",
     extraTemp2 |-> "t_4", extraHumid2 |-> "h_4", extraTemp3 |-> "t_5",
     extraHumid3 |-> "h_5", extraTemp4 |-> "t_6", extraHumid4 |-> "h_6",
     extraTemp5 |-> "t_7", extraHumid5 |-> "h_7", extraTemp6 |-> "t_8",
     extraHumid6 |-> "h_8"]

\* self._sensor_map after __init__: the default, or the default updated with
\* the sensor_map of the configuration
SensorMaps ==
    {DEFAULT_MAP,
     [DEFAULT_MAP EXCEPT !["outTemp"] = "t_3"],
     ("soilTemp1" :> "t_8") @@ DEFAULT_MAP}

\* self._retry_wait, in seconds
retry_wait == 3

\* time.time() when the driver starts: seconds since 1970, far more than
\* any ping interval
StartClock == PingInterval + 1
EndClock == StartClock + Horizon

\* a reading of the clock after the reading t
ClockAfter(t) == {u \in t..(t + retry_wait) : u <= EndClock}

\* self.write([0x7b, cmd, 0x40, 0x7d])
send_cmd_NoTerm(cmd) == <<123, cmd, 64>>

send_cmd(cmd) == <<123, cmd, 64, 125>>

\* the commands of send_sequence, in order
PING_CODES == <<6, 8, 9, 5, 3, 4, 65>>

\* if data and data.get('type') == 'sensor_values'
ShouldYield(data) == data # EmptyDict /\ "type" \in DOMAIN data
                     /\ data["type"] = "sensor_values"

\* _data_to_packet at the clock reading t; int(t + 0.5) of whole seconds is t
data_to_packet_Get(smap, data, t) ==
    Dict({<<"dateTime", t>>, <<"usUnits", "METRICWX">>}
         \cup {<<x, IF smap[x] \in DOMAIN data THEN data[smap[x]] ELSE "None">> :
                 x \in DOMAIN smap})

data_to_packet(smap, data, t) ==
    Dict({<<"dateTime", t>>, <<"usUnits", "METRICWX">>}
         \cup {<<x, data[smap[x]]>> :
                 x \in {y \in DOMAIN smap : smap[y] \in DOMAIN data}})

\* the driver before genLoopPackets is called
LoopIdle(smap) ==
    /\ lpc = "while"
    /\ sensor_map = smap
    /\ cnt = 0
    /\ last_send = 0
    /\ now = StartClock
    /\ wire = <<>>
    /\ yielded = EmptyDict
    /\ fails = 0
    /\ done_at = -1
    /\ iter_sent = "no"
    /\ prev_failed = FALSE

---------------------------------------------------------------------------
(* The recv / decode step of the caller's loop *)

Init ==
    /\ pc = "idle"
    /\ raw = NoneBuf
    /\ res = NotCalled
    /\ buf = NoneBuf
    /\ out = NotDecoded
    /\ LoopIdle(DEFAULT_MAP)

\* self._read(self.USB_PACKET_SIZE, self.USB_ENDPOINT_IN, timeout)
UsbRead ==
    /\ pc = "idle"
    /\ \E b \in Delivered : raw' = b
    /\ pc' = "read"
    /\ UNCHANGED <<res, buf, out, lvars>>

\* raw = self._station.recv(): the rest of read, on what _read returned
Recv ==
    /\ pc = "read"
    /\ res' = Read(raw)
    /\ pc' = "recvd"
    /\ UNCHANGED <<raw, buf, out, lvars>>

\* data = HP3000Station.raw_to_pkt(raw), on what recv returned
Decode ==
    /\ pc = "recvd"
    /\ res.kind \in {"none", "msg"}
    /\ buf' = IF res.kind = "none" THEN NoneBuf ELSE Bytes(res.msg)
    /\ out' = raw_to_pkt(buf')
    /\ pc' = "decoded"
    /\ UNCHANGED <<raw, res, lvars>>

\* except weewx.WeeWxIOError: the loop goes on with the next packet
CatchIOError ==
    /\ pc = "recvd"
    /\ res.kind = "exc"
    /\ res.exc = "WeeWxIOError"
    /\ pc' = "idle"
    /\ raw' = NoneBuf
    /\ res' = NotCalled
    /\ UNCHANGED <<buf, out, lvars>>

\* any other exception leaves the loop
Crash ==
    /\ pc = "recvd"
    /\ res.kind = "exc"
    /\ res.exc # "WeeWxIOError"
    /\ pc' = "crashed"
    /\ UNCHANGED <<raw, res, buf, out, lvars>>

\* a direct call of the static method
DecodeDirect ==
    /\ pc = "idle"
    /\ \E b \in DirectBuffers : buf' = b
    /\ out' = raw_to_pkt(buf')
    /\ pc' = "decoded"
    /\ UNCHANGED <<raw, res, lvars>>

\* time.sleep(1), and round again
NextPacket ==
    /\ pc = "decoded"
    /\ pc' = "idle"
    /\ raw' = NoneBuf
    /\ res' = NotCalled
    /\ buf' = NoneBuf
    /\ out' = NotDecoded
    /\ UNCHANGED lvars

Next ==
    \/ UsbRead
    \/ Recv
    \/ Decode
    \/ CatchIOError
    \/ Crash
    \/ DecodeDirect
    \/ NextPacket

Spec == Init /\ [][Next]_vars

---------------------------------------------------------------------------
(* HP3000Driver.genLoopPackets *)

\* what _read returns to the driver: nothing, one message of each kind,
\* and the packets read cannot frame
LoopDelivered ==
    {NoneBuf,
     Bytes(Layout(SensorPayload(<<127, 255, 255>>, 0, <<0, 235, 37>>), 25, "stale")),
     Bytes(Layout(SensorPayload(<<0, 235, 37>>, 2, <<127, 255, 37>>), 25, "zero")),
     Bytes(Layout(SensorPayload(<<0, 235, 37>>, 1, <<0, 255, 255>>), 25, "zero")),
     Bytes(Layout(SensorPayload(<<0, 235, 37>>, 0, <<0, 235, 64>>), 25, "zero")),
     Bytes(Plain(0, 25, "stale")),
     Bytes(Plain(1, 2, "zero")),
     Bytes(Plain(0, 7, "zero")),
     Bytes(Plain(1, 17, "ff")),
     Bytes(Layout(ConfigPayload(15, 9), 28, "stale")),
     Bytes(Layout(TempAlarmPayload(1, <<255, 56>>, <<0, 100>>), 33, "zero")),
     Bytes(Plain(0, 63, "zero")),
     Bytes(Poke(Plain(0, 63, "zero"), 63, 64)),
     Bytes(Resize(Plain(0, 25, "zero"), 63))}

LoopInit ==
    /\ pc = "idle"
    /\ raw = NoneBuf
    /\ res = NotCalled
    /\ buf = NoneBuf
    /\ out = NotDecoded
    /\ \E smap \in SensorMaps : LoopIdle(smap)

\* while cnt < self._max_tries: cnt += 1; now = time.time();
\* if now - last_send > self._ping_interval
LoopEnter ==
    /\ lpc = "while"
    /\ cnt < MaxTries
    /\ cnt' = cnt + 1
    /\ \E t \in ClockAfter(now) : now' = t
    /\ lpc' = IF now' - last_send > PingInterval THEN "send" ELSE "recv"
    /\ wire' = <<>>
    /\ iter_sent' = "no"
    /\ prev_failed' = (iter_sent = "failed")
    /\ UNCHANGED <<pc, raw, res, buf, out, sensor_map, last_send, yielded, fails,
                   done_at>>

\* the while's else: raise weewx.RetriesExceeded(msg)
RaiseRetriesExceeded ==
    /\ lpc = "while"
    /\ ~(cnt < MaxTries)
    /\ lpc' = "retries_exceeded"
    /\ UNCHANGED <<pc, raw, res, buf, out, sensor_map, cnt, last_send, now, wire,
                   yielded, fails, done_at, iter_sent, prev_failed>>

\* the next send_cmd of send_sequence, its write done; after the seventh,
\* last_send = now
SendCmd ==
    /\ lpc = "send"
    /\ Len(wire) < Len(PING_CODES)
    /\ wire' = Append(wire, send_cmd(PING_CODES[Len(wire) + 1]))
    /\ IF Len(wire') = Len(PING_CODES)
       THEN /\ last_send' = now
            /\ done_at' = now
            /\ iter_sent' = "done"
            /\ lpc' = "recv"
       ELSE UNCHANGED <<last_send, done_at, iter_sent, lpc>>
    /\ UNCHANGED <<pc, raw, res, buf, out, sensor_map, cnt, now, yielded, fails,
                   prev_failed>>

\* the next write of send_sequence raises WeeWxIOError: the except clause,
\* time.sleep(self._retry_wait), and round again
WriteError_Stamps ==
    /\ lpc = "send"
    /\ Len(wire) < Len(PING_CODES)
    /\ lpc' = "while"
    /\ fails' = fails + 1
    /\ iter_sent' = "failed"
    /\ last_send' = now
    /\ UNCHANGED <<pc, raw, res, buf, out, sensor_map, cnt, now, wire,
                   yielded, done_at, prev_failed>>

WriteError ==
    /\ lpc = "send"
    /\ Len(wire) < Len(PING_CODES)
    /\ lpc' = "while"
    /\ fails' = fails + 1
    /\ iter_sent' = "failed"
    /\ UNCHANGED <<pc, raw, res, buf, out, sensor_map, cnt, last_send, now, wire,
                   yielded, done_at, prev_failed>>

\* raw = self._station.recv()
LoopRecv ==
    /\ lpc = "recv"
    /\ \E b \in LoopDelivered : raw' = b
    /\ res' = Read(raw')
    /\ lpc' = "recvd"
    /\ UNCHANGED <<pc, buf, out, sensor_map, cnt, last_send, now, wire, yielded,
                   fails, done_at, iter_sent, prev_failed>>

\* recv returned: cnt = 0; data = raw_to_pkt(raw); a sensor_values record is
\* made a packet and yielded, anything else goes to time.sleep(1) and round
\* again; an exception of raw_to_pkt leaves the generator
LoopDecode ==
    /\ lpc = "recvd"
    /\ res.kind \in {"none", "msg"}
    /\ cnt' = 0
    /\ fails' = 0
    /\ buf' = IF res.kind = "none" THEN NoneBuf ELSE Bytes(res.msg)
    /\ out' = raw_to_pkt(buf')
    /\ IF out'.exc # ""
       THEN /\ yielded' = EmptyDict
            /\ lpc' = "crashed"
       ELSE IF ShouldYield(out'.pkt)
       THEN /\ \E t \in ClockAfter(now) :
                 yielded' = data_to_packet(sensor_map, out'.pkt, t)
            /\ lpc' = "yield"
       ELSE /\ yielded' = EmptyDict
            /\ lpc' = "sleep"
    /\ UNCHANGED <<pc, raw, res, sensor_map, last_send, now, wire, done_at,
                   iter_sent, prev_failed>>

\* recv raised WeeWxIOError: the except clause, time.sleep(self._retry_wait),
\* and round again
LoopCatch ==
    /\ lpc = "recvd"
    /\ res.kind = "exc"
    /\ res.exc = "WeeWxIOError"
    /\ fails' = fails + 1
    /\ lpc' = "while"
    /\ raw' = NoneBuf
    /\ res' = NotCalled
    /\ UNCHANGED <<pc, buf, out, sensor_map, cnt, last_send, now, wire, yielded,
                   done_at, iter_sent, prev_failed>>

\* recv raised something else: the exception leaves the generator
LoopCrash ==
    /\ lpc = "recvd"
    /\ res.kind = "exc"
    /\ res.exc # "WeeWxIOError"
    /\ lpc' = "crashed"
    /\ UNCHANGED <<pc, raw, res, buf, out, sensor_map, cnt, last_send, now, wire,
                   yielded, fails, done_at, iter_sent, prev_failed>>

\* the consumer asks for the next packet, or no packet was yielded:
\* time.sleep(1), and round again
LoopSleep ==
    /\ lpc \in {"yield", "sleep"}
    /\ lpc' = "while"
    /\ raw' = NoneBuf
    /\ res' = NotCalled
    /\ buf' = NoneBuf
    /\ out' = NotDecoded
    /\ yielded' = EmptyDict
    /\ UNCHANGED <<pc, sensor_map, cnt, last_send, now, wire, fails, done_at,
                   iter_sent, prev_failed>>

LoopNext ==
    \/ LoopEnter
    \/ RaiseRetriesExceeded
    \/ SendCmd
    \/ WriteError
    \/ LoopRecv
    \/ LoopDecode
    \/ LoopCatch
    \/ LoopCrash
    \/ LoopSleep

LoopSpec == LoopInit /\ [][LoopNext]_vars

---------------------------------------------------------------------------
(* Vocabulary of the properties *)

\* read has run on the delivered buffer
ReadDone == pc \in {"recvd", "decoded", "crashed"} /\ res.kind # "unset"

\* raw_to_pkt has run
DecodeDone == pc = "decoded"

\* the delivered buffer is a list of n bytes
RawLen == IF raw.isNone THEN 0 ELSE Len(raw.bytes)

\* the indices i with b[i] = 0x40 and b[i + 1] = 0x7d
Pairs(b) == {i \in 0..(Len(b) - 2) : At(b, i) = 64 /\ At(b, i + 1) = 125}

FirstPair(b) == Min(Pairs(b))

\* a 64-byte packet that starts with 0x7b
WellStarted == RawLen = 64 /\ At(raw.bytes, 0) = 123

\* data.get('type')
TypeOf(d) == IF "type" \in DOMAIN d THEN d["type"] ELSE "None"

\* the length of raw_to_pkt's argument, -1 for None
BufLen == IF buf.isNone THEN -1 ELSE Len(buf.bytes)

RecognizedLengths == {4, 19, 27, 30, 35}

---------------------------------------------------------------------------
(* C1 .. C3, C10: frame extraction *)

\* C1: for every 64-byte packet that starts with 0x7b and holds the pair
\* 0x40 0x7d, first at index p, read returns exactly raw[0 .. p+2], whatever
\* the other bytes are, a 0x40 before p that 0x7d does not follow included.
C1_ReturnsUpToFirstPair ==
    (ReadDone /\ WellStarted /\ Pairs(raw.bytes) # {})
        => res = Returned(PySlice(raw.bytes, 0, FirstPair(raw.bytes) + 2))

\* C2: for every 64-byte packet that starts with 0x7b and holds no pair
\* 0x40 0x7d, read raises the no-terminator WeeWxIOError and nothing else,
\* the packet whose only 0x40 is at index 63 included.
C2_NoPairRaisesIOError ==
    (ReadDone /\ WellStarted /\ Pairs(raw.bytes) = {})
        => res = Raised("WeeWxIOError", "read: no terminating bytes in buffer")

\* C3, as claimed: every message read returns has length at least 4, first
\* byte 0x7b and last two bytes 0x40 0x7d.
C3_MessageAtLeastFour ==
    (ReadDone /\ res.kind = "msg")
        => /\ Len(res.msg) >= 4
           /\ At(res.msg, 0) = 123
           /\ At(res.msg, Len(res.msg) - 2) = 64
           /\ At(res.msg, Len(res.msg) - 1) = 125

\* C3, amended: every message read returns has length at least 3 (exactly 3
\* for a packet that starts 7b 40 7d), first byte 0x7b and last two bytes
\* 0x40 0x7d.
C3_MessageAtLeastThree ==
    (ReadDone /\ res.kind = "msg")
        => /\ Len(res.msg) >= 3
           /\ At(res.msg, 0) = 123
           /\ At(res.msg, Len(res.msg) - 2) = 64
           /\ At(res.msg, Len(res.msg) - 1) = 125
           /\ (Len(res.msg) = 3 <=> (At(raw.bytes, 1) = 64 /\ At(raw.bytes, 2) = 125))

\* read returned the 3-byte message 7b 40 7d
C3_ThreeByteMessage ==
    ReadDone /\ res.kind = "msg" /\ res.msg = <<123, 64, 125>>

\* C10: read rejects every non-empty packet whose length is not 64 with the
\* bad-length error and every 64-byte packet whose first byte is not 0x7b
\* with the bad-start error; no message is returned, and the length check
\* comes first.
C10_BadLengthThenBadStart ==
    (ReadDone /\ RawLen > 0)
        => /\ RawLen # 64
                => res = Raised("WeeWxIOError", "read: bad buffer length")
           /\ (RawLen = 64 /\ At(raw.bytes, 0) # 123)
                => res = Raised("WeeWxIOError", "read: bad first byte")

\* a packet of a wrong length that also starts with a wrong byte was
\* rejected for its length
C10_WrongLengthWrongStart ==
    /\ ReadDone
    /\ RawLen = 63
    /\ At(raw.bytes, 0) # 123
    /\ res = Raised("WeeWxIOError", "read: bad buffer length")

---------------------------------------------------------------------------
(* C4 .. C8: decoding *)

\* bytes (msb, lsb, hum) of channel k (1..8) of a 27-byte message
ChMsb(b, k) == At(b, 1 + 3 * (k - 1))
ChLsb(b, k) == At(b, 2 + 3 * (k - 1))
ChHum(b, k) == At(b, 3 + 3 * (k - 1))

\* 7b 00 eb 25, seven times 7f ff ff, 40 7d
ExampleValues ==
    <<123, 0, 235, 37>> \o [i \in 1..21 |-> IF i % 3 = 1 THEN 127 ELSE 255]
    \o <<64, 125>>

\* C4: in a 27-byte message whose payload is not all zero, the temperature
\* of channel k is absent if and only if msb = 0x7f and is otherwise
\* (msb * 256 + lsb) / 10; the example buffer decodes to t_1 = 23.5,
\* h_1 = 37 and nothing for channels 2..8.
C4_TempAbsentIffMsb7f ==
    (DecodeDone /\ BufLen = 27 /\ TypeOf(out.pkt) = "sensor_values")
        => /\ \A k \in 1..8 :
                /\ Key("t", k) \notin DOMAIN out.pkt <=> ChMsb(buf.bytes, k) = 127
                /\ Key("t", k) \in DOMAIN out.pkt
                     => out.pkt[Key("t", k)]
                          = Tenths(ChMsb(buf.bytes, k) * 256 + ChLsb(buf.bytes, k))
           /\ buf.bytes = ExampleValues
                => out.pkt = Dict({<<"type", "sensor_values">>,
                                   <<"t_1", Tenths(235)>>, <<"h_1", 37>>})

\* C5: raw_to_pkt classifies by exact length: 4 is an interval (interval =
\* byte 1), 19 a humidity alarm, 30 a configuration, 35 a temperature alarm,
\* 27 sensor values or sensor calibration, and every other length, 9 and 3
\* included, has no kind.
C5_KindByLength ==
    DecodeDone
        => /\ BufLen = 4 => /\ TypeOf(out.pkt) = "interval"
                            /\ "interval" \in DOMAIN out.pkt
                            /\ out.pkt["interval"] = At(buf.bytes, 1)
           /\ BufLen = 19 => TypeOf(out.pkt) = "alarm_humidity"
           /\ BufLen = 30 => TypeOf(out.pkt) = "configuration"
           /\ BufLen = 35 => TypeOf(out.pkt) = "alarm_temperature"
           /\ BufLen = 27
                => TypeOf(out.pkt) \in {"sensor_values", "sensor_calibration"}
           /\ BufLen \notin RecognizedLengths => TypeOf(out.pkt) = "None"

\* a 4-byte message came off the wire and decoded to its interval
C5_IntervalDecoded ==
    /\ DecodeDone
    /\ res.kind = "msg"
    /\ BufLen = 4
    /\ TypeOf(out.pkt) = "interval"
    /\ out.pkt["interval"] = 1

\* C6: a 27-byte message is a sensor calibration if and only if its 24
\* payload bytes buf[1..24] are all 0, and then every tc_k and hc_k is 0;
\* in every other case it is sensor values.
C6_CalibrationIffAllZero ==
    (DecodeDone /\ BufLen = 27)
        => LET zero == \A i \in 1..24 : At(buf.bytes, i) = 0
           IN  /\ TypeOf(out.pkt) = "sensor_calibration" <=> zero
               /\ ~zero => TypeOf(out.pkt) = "sensor_values"
               /\ zero => \A k \in 1..8 :
                            /\ Key("tc", k) \in DOMAIN out.pkt
                            /\ Key("hc", k) \in DOMAIN out.pkt
                            /\ out.pkt[Key("tc", k)] = Tenths(0)
                            /\ out.pkt[Key("hc", k)] = 0

\* an all-zero 27-byte message came off the wire and decoded to a calibration
C6_CalibrationDecoded ==
    /\ DecodeDone
    /\ res.kind = "msg"
    /\ BufLen = 27
    /\ TypeOf(out.pkt) = "sensor_calibration"
    /\ DOMAIN out.pkt = {"type"} \cup {Key("tc", k) : k \in 1..8}
                                 \cup {Key("hc", k) : k \in 1..8}

\* C7: decoding never fails: for None and for every byte sequence of length
\* 0..64 raw_to_pkt returns a dict, raises nothing and subscripts no index
\* outside the sequence.
C7_DecodeNeverRaises ==
    DecodeDone
        => /\ out.exc = ""
           /\ ~buf.isNone => IndicesRead(buf.bytes) \subseteq 0..(BufLen - 1)

\* the longest recognized message was decoded, every index it reads in range
C7_LongestDecoded ==
    /\ DecodeDone
    /\ BufLen = 35
    /\ Max(IndicesRead(buf.bytes)) = 32
    /\ out.exc = ""
    /\ TypeOf(out.pkt) = "alarm_temperature"

\* C8, as claimed: a message of an unrecognized length decodes to a record
\* that carries the message's bytes and differs from the record for no
\* message.
C8_UnknownCarriesBytes ==
    (DecodeDone /\ BufLen > 0 /\ BufLen \notin RecognizedLengths)
        => /\ \E k \in DOMAIN out.pkt : out.pkt[k] = buf.bytes
           /\ out.pkt # raw_to_pkt(NoneBuf).pkt

\* C8, amended: a message of an unrecognized length decodes to the empty
\* dict, with no type and no bytes, which is also what None and the empty
\* buffer decode to; raw_to_pkt itself logs the bytes as unknown data.
C8_UnknownIsEmptyDict ==
    (DecodeDone /\ BufLen > 0 /\ BufLen \notin RecognizedLengths)
        => /\ out.exc = ""
           /\ out.pkt = EmptyDict
           /\ out.pkt = raw_to_pkt(NoneBuf).pkt
           /\ out.pkt = raw_to_pkt(Bytes(<<>>)).pkt
           /\ out.log = <<"raw", "unknown data">>

\* the 9-byte message came off the wire and decoded to the empty dict
C8_NineByteMessage ==
    /\ DecodeDone
    /\ res.kind = "msg"
    /\ BufLen = 9
    /\ out.pkt = EmptyDict

---------------------------------------------------------------------------
(* C9: residue *)

\* packets equal to b up to the end of its first pair 0x40 0x7d, with other
\* bytes after it: another residue, or one byte replaced next to the pair
\* or at the end of the packet
ResidueVariants(b) ==
    LET e == FirstPair(b) + 1
        Whole(r) == [j \in 1..Len(b) |-> IF j - 1 > e THEN Residue(r, j - 1) ELSE b[j]]
    IN  {Whole(r) : r \in ResidueKinds}
        \cup {Poke(b, q, v) :
                q \in {x \in {e + 1, e + 2, Len(b) - 2, Len(b) - 1} : x > e /\ x < Len(b)},
                v \in {0, 64, 123, 125}}

---------------------------------------------------------------------------
(* C11, C12, C14, C18: fields *)

\* C11: in sensor values the humidity of channel k is absent if and only if
\* the channel's humidity byte is 0xff and is otherwise that byte, whatever
\* the channel's temperature bytes are.
C11_HumAbsentIffFF ==
    (DecodeDone /\ BufLen = 27 /\ TypeOf(out.pkt) = "sensor_values")
        => \A k \in 1..8 :
              /\ Key("h", k) \notin DOMAIN out.pkt <=> ChHum(buf.bytes, k) = 255
              /\ Key("h", k) \in DOMAIN out.pkt
                    => out.pkt[Key("h", k)] = ChHum(buf.bytes, k)

\* a channel off the wire with the temperature sentinel 7f ff and a humidity
\* of 37 decoded to h_3 = 37 and no t_3
C11_HumWithoutTemp ==
    /\ DecodeDone
    /\ res.kind = "msg"
    /\ BufLen = 27
    /\ ChMsb(buf.bytes, 3) = 127
    /\ ChLsb(buf.bytes, 3) = 255
    /\ "t_3" \notin DOMAIN out.pkt
    /\ "h_3" \in DOMAIN out.pkt
    /\ out.pkt["h_3"] = 37

\* C12: for every byte b the timezone is b - 256 when b's high nibble is f
\* and b otherwise: negative exactly for b in 0xf0..0xff, then in -16..-1;
\* a configuration whose byte 6 is 0xfb has timezone -5.
C12_TimezoneHighNibble ==
    (DecodeDone /\ BufLen = 30)
        => /\ "timezone" \in DOMAIN out.pkt
           /\ LET b == At(buf.bytes, 6)
                  tz == out.pkt["timezone"]
              IN  /\ b \in 240..255 => tz = b - 256
                  /\ b \notin 240..255 => tz = b
                  /\ tz < 0 <=> b \in 240..255
                  /\ tz < 0 => tz \in -16..-1
                  /\ b = 251 => tz = -5

\* the documented configuration came off the wire: timezone -5
C12_TimezoneMinusFive ==
    /\ DecodeDone
    /\ res.kind = "msg"
    /\ BufLen = 30
    /\ At(buf.bytes, 6) = 251
    /\ out.pkt["timezone"] = -5

\* C14: a 30-byte message is a configuration whose graph_type, graph_hours,
\* time_format, date_format, dst, timezone and units come from bytes 1..7 in
\* that order and whose area1..area5 are bytes 11, 15, 19, 23 and 27
\* unchanged; units 1 is degree_F and 0 is degree_C.
C14_ConfigurationFields ==
    (DecodeDone /\ BufLen = 30)
        => LET b == buf.bytes
               p == out.pkt
           IN  /\ DOMAIN p = {"type", "graph_type", "graph_hours", "time_format",
                              "date_format", "dst", "timezone", "units", "area1",
                              "area2", "area3", "area4", "area5"}
               /\ p["type"] = "configuration"
               /\ p["graph_type"] = TableGet(GRAPH_TYPE, At(b, 1))
               /\ p["graph_hours"] = At(b, 2)
               /\ p["time_format"] = TableGet(TIME_FORMAT, At(b, 3))
               /\ p["date_format"] = TableGet(DATE_FORMAT, At(b, 4))
               /\ p["dst"] = TableGet(DST, At(b, 5))
               /\ p["timezone"] = (IF At(b, 6) >= 240 THEN At(b, 6) - 256 ELSE At(b, 6))
               /\ At(b, 7) = 1 => p["units"] = "degree_F"
               /\ At(b, 7) = 0 => p["units"] = "degree_C"
               /\ At(b, 7) \notin {0, 1} => p["units"] = "None"
               /\ p["area1"] = At(b, 11)
               /\ p["area2"] = At(b, 15)
               /\ p["area3"] = At(b, 19)
               /\ p["area4"] = At(b, 23)
               /\ p["area5"] = At(b, 27)

\* the documented configuration came off the wire with area2 set to 9
C14_ExampleWithArea2 ==
    /\ DecodeDone
    /\ res.kind = "msg"
    /\ BufLen = 30
    /\ out.pkt["graph_type"] = "temperature"
    /\ out.pkt["graph_hours"] = 72
    /\ out.pkt["units"] = "degree_F"
    /\ out.pkt["area1"] = 7
    /\ out.pkt["area2"] = 9

\* the keys that hold temperatures
TempKeys == {Key(p, k) : p \in {"t", "tc", "thi", "tlo"}, k \in 1..8}

\* the unsigned big-endian 16-bit integer at b[i], b[i + 1]
U16(b, i) == At(b, i) * 256 + At(b, i + 1)

\* C18: every temperature raw_to_pkt produces (t_k, tc_k, thi_k, tlo_k) is
\* an unsigned 16-bit big-endian integer divided by 10: it lies in
\* 0..6553.5 and is never negative, whatever the bytes.
C18_TemperaturesUnsigned ==
    DecodeDone
        => /\ \A key \in TempKeys \cap DOMAIN out.pkt :
                /\ out.pkt[key].den = 10
                /\ out.pkt[key].num \in 0..65535
           /\ \A k \in 1..8 :
                /\ Key("t", k) \in DOMAIN out.pkt
                     => out.pkt[Key("t", k)].num = U16(buf.bytes, 1 + 3 * (k - 1))
                /\ Key("tc", k) \in DOMAIN out.pkt
                     => out.pkt[Key("tc", k)].num = U16(buf.bytes, 1 + 3 * (k - 1))
                /\ Key("thi", k) \in DOMAIN out.pkt
                     => out.pkt[Key("thi", k)].num = U16(buf.bytes, 1 + 4 * (k - 1))
                /\ Key("tlo", k) \in DOMAIN out.pkt
                     => out.pkt[Key("tlo", k)].num = U16(buf.bytes, 3 + 4 * (k - 1))

\* the bytes ff 38 came off the wire as a high alarm and as a reading, and
\* decoded to 6533.6
C18_HighBitDecoded ==
    /\ DecodeDone
    /\ res.kind = "msg"
    /\ \/ /\ TypeOf(out.pkt) = "alarm_temperature"
          /\ out.pkt["thi_2"] = Tenths(65336)
          /\ out.pkt["tlo_2"] = Tenths(65336)
       \/ /\ TypeOf(out.pkt) = "sensor_values"
          /\ "t_2" \in DOMAIN out.pkt
          /\ out.pkt["t_2"] = Tenths(65336)

---------------------------------------------------------------------------
(* The pings of send_sequence *)

\* C13: every buffer written in an iteration of genLoopPackets is the four
\* bytes 7b <op> 40 7d, the opcodes run 06 08 09 05 03 04 41 in this order, and
\* a send_sequence that completed wrote exactly seven buffers.
C13_PingsWritten ==
    /\ Len(wire) <= 7
    /\ \A i \in 1..Len(wire) : wire[i] = <<123, <<6, 8, 9, 5, 3, 4, 65>>[i], 64, 125>>
    /\ iter_sent = "done" => Len(wire) = 7

\* a send_sequence has completed and recv is about to be called
C13_SequenceCompleted ==
    /\ lpc = "recv"
    /\ iter_sent = "done"
    /\ Len(wire) = 7
    /\ wire[7] = <<123, 65, 64, 125>>

---------------------------------------------------------------------------
(* The retry loop *)

LoopEnded == lpc \in {"retries_exceeded", "crashed"}

\* the count of tries is the number of iterations that failed with
\* WeeWxIOError since recv last returned, and RetriesExceeded is raised with
\* max_tries of them
RetriesCounted ==
    /\ cnt <= MaxTries
    /\ fails <= MaxTries
    /\ lpc = "while" => cnt = fails
    /\ lpc \in {"yield", "sleep"} => (cnt = 0 /\ fails = 0)
    /\ lpc = "retries_exceeded" => fails = MaxTries

\* C15: genLoopPackets ends only by raising RetriesExceeded, raised exactly
\* when max_tries consecutive iterations failed with WeeWxIOError; a recv
\* that returns resets the count to 0, and the count never exceeds max_tries.
C15_EndsOnlyByRetriesExceeded ==
    /\ LoopEnded => lpc = "retries_exceeded"
    /\ RetriesCounted

\* recv let an IndexError through and the generator ended with it
C15_EndedByIndexError ==
    /\ lpc = "crashed"
    /\ res = Raised("IndexError", "")
    /\ fails < MaxTries

\* RetriesExceeded is raised after max_tries failures in a row
C15_RetriesExceededRaised ==
    /\ lpc = "retries_exceeded"
    /\ fails = MaxTries

---------------------------------------------------------------------------
(* The ping cadence *)

\* C16: recv is called only after a send_sequence that completed no more than
\* ping_interval before the iteration's clock reading, and never in an
\* iteration whose send_sequence failed; last_send is the time of the last
\* completed send_sequence; the iteration after an interrupted send_sequence
\* sends again, from opcode 0x06.
C16_PingBeforeRecv ==
    /\ lpc \in {"recv", "recvd", "yield", "sleep"}
         => /\ done_at >= 0
            /\ done_at <= now
            /\ now - done_at <= PingInterval
            /\ iter_sent # "failed"
    /\ last_send = (IF done_at = -1 THEN 0 ELSE done_at)
    /\ (prev_failed /\ lpc \in {"recv", "recvd", "yield", "sleep", "crashed"})
         => iter_sent = "done"
    /\ Len(wire) >= 1 => wire[1][2] = 6

\* recv is called in the iteration after one whose send_sequence was
\* interrupted, the sequence sent anew
C16_RecvAfterRestart ==
    /\ lpc = "recv"
    /\ prev_failed
    /\ iter_sent = "done"
    /\ done_at = now

\* recv is called without a send_sequence in this iteration, the last one
\* being recent enough
C16_RecvWithoutPing ==
    /\ lpc = "recv"
    /\ iter_sent = "no"
    /\ now - done_at = PingInterval

---------------------------------------------------------------------------
(* The packets yielded *)

\* the sensor_map fields whose source key the decoded record holds
MappedFields == {x \in DOMAIN sensor_map : sensor_map[x] \in DOMAIN out.pkt}

\* C17: a packet is yielded only for a received message decoded to sensor
\* values; it holds dateTime, usUnits and, of the sensor_map fields, exactly
\* those whose source key is in the decoded record, with the record's value;
\* a channel whose bytes say absent is in no packet.
C17_YieldsSensorValuesOnly ==
    /\ lpc # "yield" => yielded = EmptyDict
    /\ lpc = "yield"
         => /\ res.kind = "msg"
            /\ Len(res.msg) = 27
            /\ ~IsCalibration(res.msg)
            /\ TypeOf(out.pkt) = "sensor_values"
            /\ DOMAIN yielded = {"dateTime", "usUnits"} \cup MappedFields
            /\ yielded["dateTime"] \in ClockAfter(now)
            /\ yielded["usUnits"] = "METRICWX"
            /\ \A x \in MappedFields : yielded[x] = out.pkt[sensor_map[x]]
            /\ \A k \in 1..8, x \in DOMAIN sensor_map :
                   /\ (ChMsb(res.msg, k) = 127 /\ sensor_map[x] = Key("t", k))
                         => x \notin DOMAIN yielded
                   /\ (ChHum(res.msg, k) = 255 /\ sensor_map[x] = Key("h", k))
                         => x \notin DOMAIN yielded

\* a packet is yielded with the fields of some channels and without those of
\* the others
C17_PartialPacketYielded ==
    /\ lpc = "yield"
    /\ "inTemp" \in DOMAIN yielded
    /\ "outTemp" \notin DOMAIN yielded
    /\ "extraHumid1" \in DOMAIN yielded
    /\ sensor_map["outTemp"] = "t_3"

=============================================================================
